---- MODULE Spec2Model ----
(***************************************************************************)
(* A model of webcrawler.py: fetch a seed page, follow a bounded number of *)
(* its links, tokenize, count and rank the words, optionally derive        *)
(* password candidates, and render the tables to standard output or to a   *)
(* file.                                                                   *)
(*                                                                         *)
(* Strings are sequences of one-character strings, so that len(),          *)
(* startswith() and concatenation are computed as Python computes them.    *)
(***************************************************************************)
EXTENDS Integers, Sequences, FiniteSets, TLC

\* ------------------------------------------------------------------ bounds

\* Longest anchor list given to get_links in SpecLinks.
MaxAnchors == 3

\* Longest token list given to get_top_words_from in SpecRank.
MaxTokens == 3

\* Largest minimum length (--length) explored.
MaxLength == 2

\* Longest ranked list given to apply_password_mutation in SpecMutate.
MaxRanked == 2

\* Longest anchor list of the seed page in Spec.
SeedAnchors == 3

\* Largest --depth explored in Spec.
MaxDepth == 3

\* ------------------------------------------------------------- characters

\* The characters matched by the regular expression class \w that the pages
\* of the model use.
WordChars == {"a", "b", "A", "B", "0", "1", "2", "9", "_"}

\* str.upper() on one character.
Upper(c) ==
  CASE c = "a" -> "A"
    [] c = "b" -> "B"
    [] OTHER -> c

\* string.punctuation, one element per character (the lexer accepts no grave
\* accent inside a string, so that character is spelled BACKTICK).
punctuation ==
  << "!", "\"", "#", "$", "%", "&", "'", "(", ")", "*", "+", ",", "-", ".",
     "/", ":", ";", "<", "=", ">", "?", "@", "[", "\\", "]", "^", "_", "BACKTICK",
     "{", "|", "}", "~" >>

DigitChars == << "0", "1", "2", "3", "4", "5", "6", "7", "8", "9" >>

\* str(n) for an integer n >= 0: its decimal digits.
RECURSIVE str(_)
str(n) ==
  IF n < 10 THEN << DigitChars[n + 1] >>
  ELSE str(n \div 10) \o << DigitChars[(n % 10) + 1] >>

\* s.startswith(prefix)
startswith(s, prefix) ==
  /\ Len(s) >= Len(prefix)
  /\ SubSeq(s, 1, Len(prefix)) = prefix

Range(s) == { s[i] : i \in DOMAIN s }

\* All sequences over S of length at most n.
SeqsUpTo(S, n) == UNION { [1..k -> S] : k \in 0..n }

\* ------------------------------------------------------------- tokenizer

\* re.findall(r'\w+', raw_text): the maximal runs of word characters of the
\* text, in document order.  cur is the run being read.
RECURSIVE findall_from(_, _, _)
findall_from(text, k, cur) ==
  IF k > Len(text)
  THEN IF cur = << >> THEN << >> ELSE << cur >>
  ELSE IF text[k] \in WordChars
       THEN findall_from(text, k + 1, Append(cur, text[k]))
       ELSE (IF cur = << >> THEN << >> ELSE << cur >>)
            \o findall_from(text, k + 1, << >>)

findall_words(raw_text) == findall_from(raw_text, 1, << >>)

\* ---------------------------------------------------------- link extractor

\* An anchor element: link.get('href') is its href, or None when the
\* attribute is absent.
Anchor(h) == [has_href |-> TRUE, href |-> h]
NoHref == [has_href |-> FALSE, href |-> << >>]

\* list(dict.fromkeys(xs)): the keys of a dict keep the order of their first
\* insertion.
RECURSIVE dict_fromkeys(_)
dict_fromkeys_nodedup(xs) == xs
dict_fromkeys(xs) ==
  IF xs = << >> THEN << >>
  ELSE LET front == dict_fromkeys(SubSeq(xs, 1, Len(xs) - 1))
           x == xs[Len(xs)]
       IN IF x \in Range(front) THEN front ELSE Append(front, x)

\* The loop of get_links over the anchors from position k, with the list
\* collected so far.  None.startswith raises AttributeError.
RECURSIVE get_links_loop_skipping(_, _, _)
get_links_loop_skipping(anchors, k, href_urls) ==
  IF k > Len(anchors)
  THEN [raised |-> FALSE, value |-> href_urls]
  ELSE IF anchors[k].has_href /\ startswith(anchors[k].href, << "h", "t", "t", "p" >>)
       THEN get_links_loop_skipping(anchors, k + 1, Append(href_urls, anchors[k].href))
       ELSE get_links_loop_skipping(anchors, k + 1, href_urls)

RECURSIVE get_links_loop(_, _, _)
get_links_loop(anchors, k, href_urls) ==
  IF k > Len(anchors)
  THEN [raised |-> FALSE, value |-> href_urls]
  ELSE IF ~anchors[k].has_href
       THEN [raised |-> TRUE, value |-> << >>]
       ELSE IF startswith(anchors[k].href, << "h", "t", "t", "p" >>)
            THEN get_links_loop(anchors, k + 1, Append(href_urls, anchors[k].href))
            ELSE get_links_loop(anchors, k + 1, href_urls)

get_links(anchors) ==
  LET r == get_links_loop(anchors, 1, << >>)
  IN IF r.raised THEN r
     ELSE [raised |-> FALSE, value |-> dict_fromkeys(r.value)]

\* ------------------------------------------------------- frequency ranker

\* A dict is a sequence of <<key, value>> pairs in insertion order.
dict_keys(d) == { d[j][1] : j \in DOMAIN d }

dict_get(d, key) == d[CHOOSE j \in DOMAIN d : d[j][1] = key][2]

dict_set(d, key, value) ==
  IF key \in dict_keys(d)
  THEN [j \in DOMAIN d |-> IF d[j][1] = key THEN << key, value >> ELSE d[j]]
  ELSE Append(d, << key, value >>)

RECURSIVE count_loop(_, _, _, _)
count_loop(word_list, min_length, k, word_count) ==
  IF k > Len(word_list) THEN word_count
  ELSE LET word == word_list[k]
       IN IF Len(word) < min_length
          THEN count_loop(word_list, min_length, k + 1, word_count)
          ELSE IF word \notin dict_keys(word_count)
               THEN count_loop(word_list, min_length, k + 1,
                               dict_set(word_count, word, 1))
               ELSE count_loop(word_list, min_length, k + 1,
                               dict_set(word_count, word,
                                        dict_get(word_count, word) + 1))

RECURSIVE count_loop_strict(_, _, _, _)
count_loop_strict(word_list, min_length, k, word_count) ==
  IF k > Len(word_list) THEN word_count
  ELSE LET word == word_list[k]
       IN IF Len(word) <= min_length
          THEN count_loop_strict(word_list, min_length, k + 1, word_count)
          ELSE IF word \notin dict_keys(word_count)
               THEN count_loop_strict(word_list, min_length, k + 1,
                                      dict_set(word_count, word, 1))
               ELSE count_loop_strict(word_list, min_length, k + 1,
                                      dict_set(word_count, word,
                                               dict_get(word_count, word) + 1))

count_occurrences_strict(word_list, min_length) ==
  count_loop_strict(word_list, min_length, 1, << >>)

count_occurrences_in(word_list, min_length) ==
  count_loop(word_list, min_length, 1, << >>)

\* sorted(items, key=lambda item: item[1], reverse=True): a stable sort, so
\* each item goes behind the items whose count is at least its own.
RECURSIVE sorted_by_count_desc(_)
sorted_by_count_asc(items) ==
  LET d == sorted_by_count_desc(items)
  IN [j \in DOMAIN d |-> d[Len(d) + 1 - j]]
sorted_by_count_desc(items) ==
  IF items = << >> THEN << >>
  ELSE LET front == sorted_by_count_desc(SubSeq(items, 1, Len(items) - 1))
           x == items[Len(items)]
           p == Cardinality({ j \in DOMAIN front : front[j][2] >= x[2] })
       IN SubSeq(front, 1, p) \o << x >> \o SubSeq(front, p + 1, Len(front))

get_top_words_ascending(all_words, length) ==
  sorted_by_count_asc(count_occurrences_in(all_words, length))

get_top_words_from(all_words, length) ==
  sorted_by_count_desc(count_occurrences_in(all_words, length))

\* ------------------------------------------------------- password mutator

\* randint(lo, hi) for the next draw r of the random source.  The source is
\* explored at the two ends of each range: r is 0 for lo and 1 for hi.
randint(lo, hi, r) == IF r = 0 THEN lo ELSE hi

\* One pass of the loop body of apply_password_mutation for one word, given
\* the four digit draws and the punctuation draw.  word[0].upper() is
\* evaluated and its value dropped.
mutate_word_capitalized(word, digits, p) ==
  << Upper(word[1]) >> \o SubSeq(word, 2, Len(word))
    \o str(digits[1]) \o str(digits[2]) \o str(digits[3]) \o str(digits[4])
    \o << punctuation[p + 1] >>

mutate_word(word, digits, p) ==
  LET dropped == Upper(word[1])
  IN word \o str(digits[1]) \o str(digits[2]) \o str(digits[3]) \o str(digits[4])
       \o << punctuation[p + 1] >>

\* ---------------------------------------------------------------- presenter

convert_to_table(words) == [j \in DOMAIN words |-> << words[j] >>]

\* tabulate(rows, headers=[header], tablefmt='fancy_grid'): the rendered table,
\* kept as its header and rows.
tabulate(rows, header) == [kind |-> "table", label |-> header, rows |-> rows]

\* A line of text written or printed.
Line(text) == [kind |-> "line", label |-> text, rows |-> << >>]

\* open(output, mode) on the file: 'w' creates or truncates, 'a' creates or
\* keeps the content.
open_file(f, mode) ==
  IF mode = "w" THEN [exists |-> TRUE, content |-> << >>]
  ELSE [exists |-> TRUE, content |-> f.content]

\* ------------------------------------------------------------------ fetcher

\* The status check of get_html_of.
bad_status_errors_only(status_code) == status_code >= 400

bad_status(status_code) == status_code # 200

\* ------------------------------------------------------- crawl orchestrator

\* The clamp of depth to the number of links found.
effective_depth_all(depth, n) == IF depth >= n THEN n ELSE depth

effective_depth(depth, n) == IF depth >= n THEN n - 1 ELSE depth

\* range(depth) still has the index i.
in_range_inclusive(i, depth) == i <= depth

in_range(i, depth) == i < depth

\* href_urls[i] for the 0-based index i.
link_at_from_last(href_urls, i) == href_urls[Len(href_urls) - i]

link_at(href_urls, i) == href_urls[i + 1]

\* -------------------------------------------------------------------- state

VARIABLES
  pc,           \* where the run stands
  depth_arg,    \* --depth as given
  length,       \* --length
  output,       \* --output
  passwd,       \* --passwd
  seed,         \* the page served at the seed URL: its anchors and its text
  href_urls,    \* get_all_words_from: the links of the seed page
  words,        \* get_all_words_from: the running token list
  depth,        \* get_all_words_from: depth after the clamp
  i,            \* get_all_words_from: the loop index
  fetched,      \* every requests.get so far: its URL and status, in order
  the_words,    \* main: the list get_all_words_from returned, in a 1-tuple
  top_words,    \* main: the ranked list
  m,            \* apply_password_mutation: words done
  passwd_list,  \* apply_password_mutation: the candidates so far
  rng,          \* the random source: its draws to come
  file,         \* the output file on disk
  handles,      \* every file object opened, in order
  stdout,       \* what was printed
  error,        \* the exception being raised, or "none"
  exit_code     \* the exit status in a 1-tuple, empty while running

vars ==
  << pc, depth_arg, length, output, passwd, seed, href_urls, words, depth, i,
     fetched, the_words, top_words, m, passwd_list, rng, file, handles,
     stdout, error, exit_code >>

\* ---------------------------------------------------------------- the web

SeedUrl == << "h", "t", "t", "p", "0" >>
UrlA == << "h", "t", "t", "p", "1" >>
UrlB == << "h", "t", "t", "p", "2" >>
UrlC == << "h", "t", "t", "p", "3" >>
RelativeUrl == << "/", "a" >>

\* The pages behind the links.  Their anchors include one without href and
\* a link to a page no seed links to.
LinkedPage(u) ==
  IF u = UrlA
  THEN [anchors |-> << NoHref, Anchor(UrlC) >>, text |-> << "a", "-", "a" >>]
  ELSE [anchors |-> << Anchor(UrlC), Anchor(UrlA) >>, text |-> << "b", "b" >>]

Page(u) == IF u = SeedUrl THEN seed ELSE LinkedPage(u)

\* The statuses a server answers with.
Statuses == { 200, 204, 404 }

\* The anchors of the seed page: without href, to the seed itself, to a linked
\* page, or relative.
SeedAnchorValues ==
  { NoHref, Anchor(SeedUrl), Anchor(UrlA), Anchor(UrlB), Anchor(RelativeUrl) }

SeedTexts == { << "a" >>, << "b", "b", " ", "a", "!" >> }

OutputPath == "out.txt"

NoFile == [exists |-> FALSE, content |-> << >>]
OldFile == [exists |-> TRUE, content |-> << Line("old") >>]

\* The message get_html_of prints before exit(1).
Diagnostic(status_code) ==
  [kind |-> "diagnostic", label |-> "HTTP status code", rows |-> << status_code >>]

\* Every variable at its value before main starts, for the given inputs.
Start(p, d, l, o, pw, s, f, ws, tw, rs) ==
  /\ pc = p
  /\ depth_arg = d
  /\ length = l
  /\ output = o
  /\ passwd = pw
  /\ seed = s
  /\ file = f
  /\ words = ws
  /\ top_words = tw
  /\ rng = rs
  /\ href_urls = << >>
  /\ depth = d
  /\ i = 0
  /\ fetched = << >>
  /\ the_words = << >>
  /\ m = 0
  /\ passwd_list = << >>
  /\ handles = << >>
  /\ stdout = << >>
  /\ error = "none"
  /\ exit_code = << >>

BlankPage == [anchors |-> << >>, text |-> << >>]

\* The random sources of a run of main: all draws low, all high, or
\* alternating, enough of them for the two distinct tokens of the pages.
RunSources ==
  { [j \in 1..10 |-> 0], [j \in 1..10 |-> 1], [j \in 1..10 |-> j % 2] }

\* main is called with its options parsed.  The file on disk before the run
\* is varied only when the run is given an output path, and the random source
\* only when it is given --passwd.
Init ==
  \E d \in 0..MaxDepth, l \in 0..MaxLength, o \in { "", OutputPath },
     pw \in BOOLEAN, a \in SeqsUpTo(SeedAnchorValues, SeedAnchors),
     t \in SeedTexts, f \in { NoFile, OldFile }, rs \in RunSources :
    /\ (o = "" => f = NoFile)
    /\ (~pw => rs = [j \in 1..10 |-> 0])
    /\ Start("start", d, l, o, pw, [anchors |-> a, text |-> t], f, << >>, << >>, rs)

\* ------------------------------------------------------------ the crawl

\* get_html_of on a bad status: print the message and exit(1).
Exit1(u, status_code) ==
  /\ fetched' = Append(fetched, [url |-> u, status |-> status_code])
  /\ stdout' = Append(stdout, Diagnostic(status_code))
  /\ pc' = "exited"
  /\ exit_code' = << 1 >>
  /\ UNCHANGED << depth_arg, length, output, passwd, seed, href_urls, words,
                  depth, i, the_words, top_words, m, passwd_list, rng, file,
                  handles, error >>

\* An exception nothing catches ends the interpreter with status 1.
Crash(kind) ==
  /\ pc' = "crashed"
  /\ error' = kind
  /\ exit_code' = << 1 >>

\* get_all_words_from up to its loop: fetch the seed page, extract its links,
\* tokenize it and clamp depth.
FetchSeed ==
  /\ pc = "start"
  /\ \E status_code \in Statuses :
       IF bad_status(status_code)
       THEN Exit1(SeedUrl, status_code)
       ELSE LET r == get_links(Page(SeedUrl).anchors)
            IN /\ fetched' = Append(fetched, [url |-> SeedUrl, status |-> status_code])
               /\ IF r.raised
                  THEN /\ Crash("AttributeError")
                       /\ UNCHANGED << href_urls, words, depth, i >>
                  ELSE /\ href_urls' = r.value
                       /\ words' = findall_words(Page(SeedUrl).text)
                       /\ depth' = effective_depth(depth_arg, Len(r.value))
                       /\ i' = 0
                       /\ pc' = "crawl"
                       /\ UNCHANGED << error, exit_code >>
               /\ UNCHANGED << depth_arg, length, output, passwd, seed, the_words,
                               top_words, m, passwd_list, rng, file, handles, stdout >>

\* One pass of the loop of get_all_words_from: fetch href_urls[i] and add its
\* tokens.
FetchLink ==
  /\ pc = "crawl"
  /\ in_range(i, depth)
  /\ \E status_code \in Statuses :
       LET u == link_at(href_urls, i)
       IN IF bad_status(status_code)
          THEN Exit1(u, status_code)
          ELSE /\ fetched' = Append(fetched, [url |-> u, status |-> status_code])
               /\ words' = words \o findall_words(Page(u).text)
               /\ i' = i + 1
               /\ UNCHANGED << pc, depth_arg, length, output, passwd, seed,
                               href_urls, depth, the_words, top_words, m,
                               passwd_list, rng, file, handles, stdout, error,
                               exit_code >>

\* The loop is over: get_all_words_from returns and main ranks the words.
RankWords ==
  /\ pc = "crawl"
  /\ ~in_range(i, depth)
  /\ the_words' = << words >>
  /\ top_words' = get_top_words_from(words, length)
  /\ pc' = "present"
  /\ UNCHANGED << depth_arg, length, output, passwd, seed, href_urls, words,
                  depth, i, fetched, m, passwd_list, rng, file, handles, stdout,
                  error, exit_code >>

\* ------------------------------------------------------------ presenting

\* [word[0] for word in word_list]
first_of(word_list) == [j \in DOMAIN word_list |-> word_list[j][1]]

\* main: the rendered word table.
word_table == tabulate(convert_to_table(first_of(top_words)), "Top Words")

\* main: the rendered password table.
passwd_table == tabulate(convert_to_table(passwd_list), "Possible Passwords")

\* The modes main opens the output file in.
WordsOpenMode == "w"

PasswdOpenModeTruncating == "w"

PasswdOpenMode == "a"

\* Where main goes once the word table is out.
AfterWords == IF passwd THEN "mutate" ELSE "done"

\* Normal completion of main.
Finish(next) ==
  /\ pc' = next
  /\ exit_code' = IF next = "done" THEN << 0 >> ELSE exit_code

\* output_file.close() on the file object output_file names: the last opened.
close_last(hs) ==
  IF hs = << >> THEN hs
  ELSE [hs EXCEPT ![Len(hs)] = [@ EXCEPT !.closed = TRUE]]

\* The writes of a try block: the first n of them succeed; when n is less
\* than their number the next one raises OSError.
written(items, n) == SubSeq(items, 1, n)

\* print(table)
PrintWords ==
  /\ pc = "present"
  /\ output = ""
  /\ stdout' = Append(stdout, word_table)
  /\ Finish(AfterWords)
  /\ UNCHANGED << depth_arg, length, output, passwd, seed, href_urls, words,
                  depth, i, fetched, the_words, top_words, m, passwd_list, rng,
                  file, handles, error >>

\* output_file = open(output, 'w'), which may raise.
OpenWords ==
  /\ pc = "present"
  /\ output # ""
  /\ \E ok \in BOOLEAN :
       IF ok
       THEN /\ file' = open_file(file, WordsOpenMode)
            /\ handles' = Append(handles, [mode |-> WordsOpenMode, closed |-> FALSE])
            /\ pc' = "write_words"
            /\ UNCHANGED << error, exit_code >>
       ELSE /\ Crash("OSError")
            /\ UNCHANGED << file, handles >>
  /\ UNCHANGED << depth_arg, length, output, passwd, seed, href_urls, words,
                  depth, i, fetched, the_words, top_words, m, passwd_list, rng,
                  stdout >>

\* The try block: write the table and a newline.
WriteWords ==
  /\ pc = "write_words"
  /\ LET items == << word_table, Line("\n") >>
     IN \E n \in 0..Len(items) :
          /\ file' = [file EXCEPT !.content = @ \o written(items, n)]
          /\ error' = IF n < Len(items) THEN "OSError" ELSE error
  /\ pc' = "close_words"
  /\ UNCHANGED << depth_arg, length, output, passwd, seed, href_urls, words,
                  depth, i, fetched, the_words, top_words, m, passwd_list, rng,
                  handles, stdout, exit_code >>

\* The finally block: close, then go on or let the exception out.
CloseWords ==
  /\ pc = "close_words"
  /\ handles' = close_last(handles)
  /\ IF error # "none"
     THEN Crash(error)
     ELSE Finish(AfterWords) /\ UNCHANGED error
  /\ UNCHANGED << depth_arg, length, output, passwd, seed, href_urls, words,
                  depth, i, fetched, the_words, top_words, m, passwd_list, rng,
                  file, stdout >>

\* One pass of the loop of apply_password_mutation.
MutateWord ==
  /\ pc = "mutate"
  /\ m < Len(top_words)
  /\ LET digits == [j \in 1..4 |-> randint(0, 9, rng[j])]
         p == randint(0, Len(punctuation) - 1, rng[5])
     IN passwd_list' = Append(passwd_list, mutate_word(first_of(top_words)[m + 1], digits, p))
  /\ rng' = SubSeq(rng, 6, Len(rng))
  /\ m' = m + 1
  /\ UNCHANGED << pc, depth_arg, length, output, passwd, seed, href_urls, words,
                  depth, i, fetched, the_words, top_words, file, handles,
                  stdout, error, exit_code >>

\* apply_password_mutation returns.
MutateReturn ==
  /\ pc = "mutate"
  /\ m >= Len(top_words)
  /\ pc' = "present_passwd"
  /\ UNCHANGED << depth_arg, length, output, passwd, seed, href_urls, words,
                  depth, i, fetched, the_words, top_words, m, passwd_list, rng,
                  file, handles, stdout, error, exit_code >>

\* print("Possible Passwords:") and print(passwd_table)
PrintPasswd ==
  /\ pc = "present_passwd"
  /\ output = ""
  /\ stdout' = stdout \o << Line("Possible Passwords:"), passwd_table >>
  /\ Finish("done")
  /\ UNCHANGED << depth_arg, length, output, passwd, seed, href_urls, words,
                  depth, i, fetched, the_words, top_words, m, passwd_list, rng,
                  file, handles, error >>

\* output_file = open(output, 'a') inside the try block: when it raises, the
\* finally block closes the file object of the first open again.
OpenPasswd ==
  /\ pc = "present_passwd"
  /\ output # ""
  /\ \E ok \in BOOLEAN :
       IF ok
       THEN /\ file' = open_file(file, PasswdOpenMode)
            /\ handles' = Append(handles, [mode |-> PasswdOpenMode, closed |-> FALSE])
            /\ pc' = "write_passwd"
            /\ UNCHANGED << error, exit_code >>
       ELSE /\ Crash("OSError")
            /\ handles' = close_last(handles)
            /\ UNCHANGED file
  /\ UNCHANGED << depth_arg, length, output, passwd, seed, href_urls, words,
                  depth, i, fetched, the_words, top_words, m, passwd_list, rng,
                  stdout >>

\* The rest of the try block: the header line, the table and a newline.
WritePasswd ==
  /\ pc = "write_passwd"
  /\ LET items == << Line("Password Mutations:\n"), passwd_table, Line("\n") >>
     IN \E n \in 0..Len(items) :
          /\ file' = [file EXCEPT !.content = @ \o written(items, n)]
          /\ error' = IF n < Len(items) THEN "OSError" ELSE error
  /\ pc' = "close_passwd"
  /\ UNCHANGED << depth_arg, length, output, passwd, seed, href_urls, words,
                  depth, i, fetched, the_words, top_words, m, passwd_list, rng,
                  handles, stdout, exit_code >>

\* The finally block of the password section.
ClosePasswd ==
  /\ pc = "close_passwd"
  /\ handles' = close_last(handles)
  /\ IF error # "none"
     THEN Crash(error)
     ELSE Finish("done") /\ UNCHANGED error
  /\ UNCHANGED << depth_arg, length, output, passwd, seed, href_urls, words,
                  depth, i, fetched, the_words, top_words, m, passwd_list, rng,
                  file, stdout >>

Next ==
  \/ FetchSeed
  \/ FetchLink
  \/ RankWords
  \/ PrintWords
  \/ OpenWords
  \/ WriteWords
  \/ CloseWords
  \/ MutateWord
  \/ MutateReturn
  \/ PrintPasswd
  \/ OpenPasswd
  \/ WritePasswd
  \/ ClosePasswd

Spec == Init /\ [][Next]_vars

\* ------------------------------------------------ the functions on their own

\* The href values of the anchors given to get_links.
LinkAnchorValues ==
  { NoHref, Anchor(UrlA), Anchor(UrlB), Anchor(<< "h", "t", "t", "p" >>),
    Anchor(<< "h", "t", "t" >>), Anchor(RelativeUrl), Anchor(<< >>) }

\* The tokens of the lists given to get_top_words_from.
RankTokens == { << "a" >>, << "A" >>, << "b", "b" >>, << "a", "b", "9" >> }

\* The tokens of the ranked lists given to apply_password_mutation.
MutateTokens == { << "a" >>, << "b", "b" >>, << "B", "_" >> }

\* The ranked lists: distinct tokens, counts in non-increasing order.
RankedLists ==
  { r \in SeqsUpTo(MutateTokens \X { 1, 2 }, MaxRanked) :
      /\ \A j, k \in DOMAIN r : j < k => r[j][1] # r[k][1] /\ r[j][2] >= r[k][2] }

InitLinks ==
  \E a \in SeqsUpTo(LinkAnchorValues, MaxAnchors) :
    Start("links_call", 0, 0, "", FALSE, [anchors |-> a, text |-> << >>],
          NoFile, << >>, << >>, << >>)

\* href_urls = get_links(soup)
LinksCall ==
  /\ pc = "links_call"
  /\ LET r == get_links(seed.anchors)
     IN /\ href_urls' = r.value
        /\ error' = IF r.raised THEN "AttributeError" ELSE error
  /\ pc' = "links_done"
  /\ UNCHANGED << depth_arg, length, output, passwd, seed, words, depth, i,
                  fetched, the_words, top_words, m, passwd_list, rng, file,
                  handles, stdout, exit_code >>

SpecLinks == InitLinks /\ [][LinksCall]_vars

InitRank ==
  \E ws \in SeqsUpTo(RankTokens, MaxTokens), l \in 0..MaxLength :
    Start("rank_call", 0, l, "", FALSE, BlankPage, NoFile, ws, << >>, << >>)

\* top_words = get_top_words_from(the_words, length)
RankCall ==
  /\ pc = "rank_call"
  /\ top_words' = get_top_words_from(words, length)
  /\ pc' = "rank_done"
  /\ UNCHANGED << depth_arg, length, output, passwd, seed, href_urls, words,
                  depth, i, fetched, the_words, m, passwd_list, rng, file, handles,
                  stdout, error, exit_code >>

SpecRank == InitRank /\ [][RankCall]_vars

\* Every ranked list, with every random source at the ends of its ranges.
InitMutate ==
  \E r \in RankedLists :
    \E rs \in [1..(5 * Len(r)) -> { 0, 1 }] :
      Start("mutate", 0, 0, "", TRUE, BlankPage, NoFile, << >>, r, rs)

SpecMutate == InitMutate /\ [][MutateWord \/ MutateReturn]_vars

\* ------------------------------------------------------------------ claims

AllHaveHref(anchors) == \A j \in DOMAIN anchors : anchors[j].has_href

BeginsWithHttp(h) ==
  /\ Len(h) >= 4
  /\ h[1] = "h" /\ h[2] = "t" /\ h[3] = "t" /\ h[4] = "p"

\* The position of the first anchor whose href is h.
FirstAnchorOf(anchors, h) ==
  CHOOSE j \in DOMAIN anchors :
    /\ anchors[j].href = h
    /\ \A k \in 1..(j - 1) : anchors[k].href # h

NoDuplicates(xs) == \A j, k \in DOMAIN xs : j # k => xs[j] # xs[k]

\* C4: for anchors that all carry an href, get_links returns without raising
\* a list with no duplicate, holding exactly the href values that begin with
\* http, ordered by the position of the first occurrence of each.
C4_LinksDistinctInFirstSeenOrder ==
  (pc = "links_done" /\ AllHaveHref(seed.anchors)) =>
    /\ error = "none"
    /\ NoDuplicates(href_urls)
    /\ Range(href_urls)
         = { seed.anchors[j].href :
               j \in { k \in DOMAIN seed.anchors : BeginsWithHttp(seed.anchors[k].href) } }
    /\ \A j, k \in DOMAIN href_urls :
         j < k => FirstAnchorOf(seed.anchors, href_urls[j])
                    < FirstAnchorOf(seed.anchors, href_urls[k])

\* A repeated link around another one, and an href that is dropped.
C4_Witness ==
  /\ pc = "links_done"
  /\ AllHaveHref(seed.anchors)
  /\ Len(seed.anchors) = 3
  /\ seed.anchors[1] = seed.anchors[3]
  /\ href_urls = << UrlA, UrlB >>

\* C5: the list get_top_words_from returns is sorted by count in
\* non-increasing order.
C5_RankedByCountNonIncreasing ==
  pc = "rank_done" =>
    \A j \in 1..(Len(top_words) - 1) : top_words[j][2] >= top_words[j + 1][2]

\* The most frequent token is not the first one of the list.
C5_Witness ==
  /\ pc = "rank_done"
  /\ Len(top_words) >= 2
  /\ top_words[1][2] > top_words[2][2]
  /\ words[1] = top_words[2][1]

RECURSIVE SumOfCounts(_)
SumOfCounts(ranked) ==
  IF ranked = << >> THEN 0
  ELSE ranked[Len(ranked)][2] + SumOfCounts(SubSeq(ranked, 1, Len(ranked) - 1))

Occurrences(word_list, word) ==
  Cardinality({ j \in DOMAIN word_list : word_list[j] = word })

\* C6: for a minimum length >= 0, the ranked output has exactly one entry per
\* distinct token at least as long as the minimum, with its exact number of
\* occurrences; no shorter token appears, and the counts sum to the number of
\* tokens at least as long as the minimum.
C6_OneEntryPerKeptTokenWithItsCount ==
  pc = "rank_done" =>
    LET kept == { j \in DOMAIN words : Len(words[j]) >= length }
    IN /\ \A j \in kept :
            Cardinality({ e \in DOMAIN top_words : top_words[e][1] = words[j] }) = 1
       /\ \A e \in DOMAIN top_words :
            /\ Len(top_words[e][1]) >= length
            /\ top_words[e][2] >= 1
            /\ top_words[e][2] = Occurrences(words, top_words[e][1])
       /\ SumOfCounts(top_words) = Cardinality(kept)

\* A token is dropped for its length and another one is counted twice.
C6_Witness ==
  /\ pc = "rank_done"
  /\ \E j \in DOMAIN words : Len(words[j]) < length
  /\ \E e \in DOMAIN top_words :
       top_words[e][2] = 2 /\ Len(top_words[e][1]) = length

IsDigitChar(c) == \E j \in DOMAIN DigitChars : DigitChars[j] = c

IsPunctuationChar(c) == \E j \in DOMAIN punctuation : punctuation[j] = c

\* A candidate of a token: the token, four decimal digits, one punctuation
\* character.
IsCandidateOf(cand, token) ==
  /\ Len(cand) = Len(token) + 5
  /\ SubSeq(cand, 1, Len(token)) = token
  /\ \A j \in 1..4 : IsDigitChar(cand[Len(token) + j])
  /\ IsPunctuationChar(cand[Len(token) + 5])

C8_CandidatesSoFar ==
  pc \in { "mutate", "present_passwd" } =>
    /\ Len(passwd_list) = m
    /\ m <= Len(top_words)
    /\ pc = "present_passwd" => m = Len(top_words)
    /\ \A j \in DOMAIN passwd_list : IsCandidateOf(passwd_list[j], top_words[j][1])

\* C8: apply_password_mutation returns one candidate per ranked entry, in the
\* order of the entries; each is the token unchanged, then four decimal
\* digits, then one punctuation character; the ranked list stays as it was.
C8_OneCandidatePerEntry ==
  /\ [] C8_CandidatesSoFar
  /\ [][top_words' = top_words]_vars

\* Two candidates are returned, the first of a token with a lower-case first
\* character.
C8_Witness ==
  /\ pc = "present_passwd"
  /\ Len(passwd_list) = 2
  /\ top_words[1][1] = << "a" >>

\* The links of a page as the claims describe them: the distinct href values
\* beginning with http, in the order of their first occurrence.
RECURSIVE HrefsInOrder(_, _)
HrefsInOrder(anchors, positions) ==
  IF positions = { } THEN << >>
  ELSE LET j == CHOOSE p \in positions : \A q \in positions : p <= q
       IN << anchors[j].href >> \o HrefsInOrder(anchors, positions \ { j })

LinkSet(anchors) ==
  HrefsInOrder(anchors,
    { j \in DOMAIN anchors :
        /\ anchors[j].has_href
        /\ BeginsWithHttp(anchors[j].href)
        /\ \A k \in 1..(j - 1) : anchors[k] # anchors[j] })

number_of_links == Len(LinkSet(seed.anchors))

\* The URLs fetched after the seed page, in order.
LinkedFetches == [j \in 1..(Len(fetched) - 1) |-> fetched[j + 1].url]

\* get_all_words_from has returned.
Returned == the_words # << >>

\* Neither created nor truncated nor written.
FileUntouched == file \in { NoFile, OldFile }

NoTableIn(items) ==
  \A j \in DOMAIN items : items[j].kind = "diagnostic"

\* C1: as soon as a fetch returns a status other than 200 the process ends
\* with exit code 1: that fetch is the last one, no table is printed or
\* written, the output file is neither created nor truncated, and no token
\* list is returned.
C1_BadStatusStopsTheRun ==
  \A j \in DOMAIN fetched :
    fetched[j].status # 200 =>
      /\ j = Len(fetched)
      /\ pc = "exited"
      /\ exit_code = << 1 >>
      /\ ~Returned
      /\ top_words = << >> /\ passwd_list = << >>
      /\ NoTableIn(stdout)
      /\ FileUntouched
      /\ handles = << >>

\* The first linked page answers 404 while another link was still to be
\* fetched and an output file is there to be truncated.
C1_Witness ==
  /\ pc = "exited"
  /\ Len(fetched) = 2
  /\ fetched[2].status = 404
  /\ depth >= 2
  /\ output # ""
  /\ passwd
  /\ file = OldFile

HasNoLinks(anchors) ==
  \A j \in DOMAIN anchors : anchors[j].has_href => ~BeginsWithHttp(anchors[j].href)

\* C3: when depth is 0, or the seed page has no http link, exactly one fetch
\* is made, of the seed page, and the list returned is the tokens of the seed
\* page in document order; with a 200 answer and an href on every anchor the
\* call does return.
C3_OnlyTheSeedPage ==
  (fetched # << >> /\ (depth_arg = 0 \/ HasNoLinks(seed.anchors))) =>
    /\ Len(fetched) = 1
    /\ fetched[1].url = SeedUrl
    /\ pc = "crawl" => i >= depth
    /\ Returned => the_words = << findall_words(seed.text) >>
    /\ (fetched[1].status = 200 /\ AllHaveHref(seed.anchors)) =>
         (pc = "crawl" \/ Returned)

\* A depth of 0 on a seed page with two links.
C3_Witness ==
  /\ Returned
  /\ depth_arg = 0
  /\ Len(href_urls) = 2
  /\ the_words = << << << "b", "b" >>, << "a" >> >> >>
  /\ pc = "done"

RECURSIVE TokensOfPages(_)
TokensOfPages(urls) ==
  IF urls = << >> THEN << >>
  ELSE findall_words(Page(urls[1]).text) \o TokensOfPages(Tail(urls))

\* What C9 says besides the absence of a second fetch.
C9_OrderOfTheCrawl ==
  fetched # << >> =>
    /\ fetched[1].url = SeedUrl
    /\ Len(LinkedFetches) <= Len(LinkSet(seed.anchors))
    /\ LinkedFetches = SubSeq(LinkSet(seed.anchors), 1, Len(LinkedFetches))
    /\ Len(LinkedFetches) <= depth_arg
    /\ (Returned /\ depth_arg < number_of_links) => Len(LinkedFetches) = depth_arg
    /\ Returned =>
         the_words = << findall_words(seed.text) \o TokensOfPages(LinkedFetches) >>

\* C9 as stated: the seed page is fetched first, then the linked pages in the
\* order of the link set of the seed page, from its first link and with none
\* skipped; at most depth of them, exactly depth when depth is less than the
\* number of links; the list returned is the tokens of the seed page followed
\* by those of each visited page; and no linked URL is fetched twice.
C9_AsStated ==
  /\ C9_OrderOfTheCrawl
  /\ \A j, k \in DOMAIN fetched :
       (j # k /\ fetched[j].url \in Range(LinkSet(seed.anchors)))
         => fetched[j].url # fetched[k].url

\* C9, amended: as stated, except that only the fetches of linked pages are
\* pairwise distinct: a link of the seed page to its own URL is fetched again.
C9_NoLinkedPageFetchedTwice ==
  /\ C9_OrderOfTheCrawl
  /\ NoDuplicates(LinkedFetches)

\* Two of three links are visited, the second one after a repeated anchor.
C9_Witness ==
  /\ pc = "done"
  /\ depth_arg = 2
  /\ number_of_links = 3
  /\ LinkedFetches = << UrlB, UrlA >>
  /\ Len(the_words[1]) = 5

\* C10: a seed page with an anchor without href ends the run with an
\* unhandled error right after the seed fetch, which is not the exit on a bad
\* status: no linked page is fetched and nothing is output, whatever the other
\* anchors are; an anchor without href on a linked page causes no such error.
C10_AnchorWithoutHrefOnTheSeed ==
  /\ (fetched # << >> /\ fetched[1].status = 200 /\ ~AllHaveHref(seed.anchors)) =>
       /\ pc = "crashed"
       /\ error = "AttributeError"
       /\ Len(fetched) = 1
       /\ ~Returned
       /\ stdout = << >>
       /\ FileUntouched
  /\ error = "AttributeError" => ~AllHaveHref(seed.anchors)

\* The anchor without href comes after two anchors with http links.
C10_Witness ==
  /\ pc = "crashed"
  /\ error = "AttributeError"
  /\ depth_arg >= 1
  /\ Len(seed.anchors) = 3
  /\ seed.anchors[1] = Anchor(UrlA)
  /\ seed.anchors[2] = Anchor(UrlB)
  /\ seed.anchors[3] = NoHref

\* C7: with an output file and the password flag, the file is first opened
\* truncating, the word table is written and the file closed; only then is it
\* opened for appending and the header line and the password table written; at
\* the end the file holds the word table followed by the password section,
\* every file object opened is closed, and nothing was printed.
C7_WordTableThenPasswordSection ==
  (output # "" /\ passwd) =>
    /\ Len(handles) <= 2
    /\ \A j, k \in DOMAIN handles : (~handles[j].closed /\ ~handles[k].closed) => j = k
    /\ handles # << >> => handles[1].mode = "w"
    /\ pc = "write_words" => file = [exists |-> TRUE, content |-> << >>]
    /\ Len(handles) = 2 =>
         /\ handles[2].mode = "a"
         /\ handles[1].closed
         /\ Len(file.content) >= 2
         /\ SubSeq(file.content, 1, 2) = << word_table, Line("\n") >>
    /\ pc = "done" =>
         /\ file = [exists |-> TRUE,
                    content |-> << word_table, Line("\n"),
                                   Line("Password Mutations:\n"), passwd_table,
                                   Line("\n") >>]
         /\ Len(handles) = 2
         /\ \A j \in DOMAIN handles : handles[j].closed
         /\ stdout = << >>

\* A run that ends with two words and their two candidates in the file.
C7_Witness ==
  /\ pc = "done"
  /\ output # ""
  /\ passwd
  /\ Len(top_words) = 2
  /\ Len(passwd_list) = 2
  /\ Len(file.content) = 5

====
